---------------------------- MODULE Spec2Model ----------------------------
(***************************************************************************)
(* PiiReadWriteLock (src/unnamed/part_001, lines 575-716): a reader-writer *)
(* lock with writer preference and an optional recursive mode.             *)
(*                                                                         *)
(* Every member function takes d->mutex in its first statement             *)
(* (QMutexLocker) and keeps it until it returns or until it blocks in      *)
(* QWaitCondition::wait, which releases the mutex while the thread sleeps  *)
(* and takes it again before wait returns.  A step of the model is         *)
(* therefore one critical section: from taking the mutex to the return or  *)
(* to the wait, and from the wait's return to the function's return or to  *)
(* the next wait.  Every state of the model is a point where the mutex is  *)
(* not held.                                                               *)
(***************************************************************************)
EXTENDS Integers, FiniteSets, Sequences, TLC

\* ------------------------------------------------------------------ bounds
NumThreads == 3
MaxHolds == 2
MaxCalls == 5
MaxUnmatched == 1

Threads == 1..NumThreads

VARIABLES
  bRecursive,          \* Data::bRecursive, fixed at construction
  bNoDebug,            \* the build: TRUE when Q_ASSERT expands to nothing
  currentWriter,       \* Data::currentWriter, 0 is "no thread"
  iActiveReaders,      \* Data::iActiveReaders
  iActiveWriters,      \* Data::iActiveWriters
  iWaitingReaders,     \* Data::iWaitingReaders
  iWaitingWriters,     \* Data::iWaitingWriters
  hashCurrentReaders,  \* Data::hashCurrentReaders, a function on its keys
  pc,                  \* where each thread is: idle, or inside a wait
  iRemainingReaders,   \* lockForWrite's local, per thread
  aborted,             \* a failed Q_ASSERT has ended the process
  readHolds,           \* caller's side: lockForRead calls returned, not yet unlocked
  writeHolds,          \* caller's side: lockForWrite calls returned, not yet unlocked
  calls,               \* number of lockFor... calls made (bounded specifications)
  lastOp,              \* the call (or wait return) of the latest step, and its thread
  trip                 \* a single thread's run of lockForRead calls followed by
                       \* unlockRead calls, and the lock's data before the run

lockVars == <<currentWriter, iActiveReaders, iActiveWriters, iWaitingReaders,
              iWaitingWriters, hashCurrentReaders>>
vars == <<bRecursive, bNoDebug, currentWriter, iActiveReaders, iActiveWriters,
          iWaitingReaders, iWaitingWriters, hashCurrentReaders, pc,
          iRemainingReaders, aborted, readHolds, writeHolds, calls, lastOp,
          trip>>

\* ------------------------------------------------------------ QHash helpers
Contains_Never(h, k) == FALSE
Contains(h, k) == k \in DOMAIN h
Insert_OneMore(h, k, v) ==
  [x \in (DOMAIN h) \cup {k} |-> IF x = k THEN v + 1 ELSE h[x]]
Insert(h, k, v) == [x \in (DOMAIN h) \cup {k} |-> IF x = k THEN v ELSE h[x]]
Erase_KeepsEntry(h, k) == [h EXCEPT ![k] = 0]
Erase_Forgets(h, k) == h
Erase(h, k) == [x \in (DOMAIN h) \ {k} |-> h[x]]
EmptyHash == [x \in {} |-> 0]

\* Qt::HANDLE self = 0; if (d->bRecursive) self = QThread::currentThreadId();
Self_AlwaysThreadId(t) == t
Self_NoThread(t) == 0
Self(t) == IF bRecursive THEN t ELSE 0

\* ------------------------------------------------------------- construction
\* No run is being followed.
NoTrip == [thread |-> 0, acq |-> 0, rel |-> 0, snap |-> <<>>]

Init ==
  /\ trip = NoTrip
  /\ bRecursive \in BOOLEAN
  /\ bNoDebug \in BOOLEAN
  /\ currentWriter = 0
  /\ iActiveReaders = 0
  /\ iActiveWriters = 0
  /\ iWaitingReaders = 0
  /\ iWaitingWriters = 0
  /\ hashCurrentReaders = EmptyHash
  /\ pc = [t \in Threads |-> "idle"]
  /\ iRemainingReaders = [t \in Threads |-> 0]
  /\ aborted = FALSE
  /\ readHolds = [t \in Threads |-> 0]
  /\ writeHolds = [t \in Threads |-> 0]
  /\ calls = 0
  /\ lastOp = <<"construct", 0>>

\* ------------------------------------------------------------- lockForRead
\* while (d->iActiveWriters > 0 || d->iWaitingWriters > 0)
ReaderMustWait_IgnoreWaitingWriters == iActiveWriters > 0
ReaderMustWait_IgnoreActiveWriters == iWaitingWriters > 0
ReaderMustWait_CountReaders ==
  iActiveWriters > 0 \/ iWaitingWriters > 0 \/ iActiveReaders > 0
ReaderMustWait == iActiveWriters > 0 \/ iWaitingWriters > 0

\* The loop of lines 631-636 and the grant of lines 637-640, entered with
\* iWaitingReaders already at the value w the thread sees under the mutex.
ReadLoop_KeepsCount(t, w) ==
  IF ReaderMustWait
  THEN /\ iWaitingReaders' = w + 1
       /\ pc' = [pc EXCEPT ![t] = "readerWait"]
       /\ UNCHANGED <<iActiveReaders, hashCurrentReaders>>
  ELSE /\ iWaitingReaders' = iWaitingReaders
       /\ hashCurrentReaders' = IF bRecursive
                                THEN Insert(hashCurrentReaders, Self(t), 1)
                                ELSE hashCurrentReaders
       /\ iActiveReaders' = iActiveReaders + 1
       /\ pc' = [pc EXCEPT ![t] = "idle"]
ReadLoop(t, w) ==
  IF ReaderMustWait
  THEN /\ iWaitingReaders' = w + 1
       /\ pc' = [pc EXCEPT ![t] = "readerWait"]
       /\ UNCHANGED <<iActiveReaders, hashCurrentReaders>>
  ELSE /\ iWaitingReaders' = w
       /\ hashCurrentReaders' = IF bRecursive
                                THEN Insert(hashCurrentReaders, Self(t), 1)
                                ELSE hashCurrentReaders
       /\ iActiveReaders' = iActiveReaders + 1
       /\ pc' = [pc EXCEPT ![t] = "idle"]

LockForRead(t) ==
  /\ ~aborted
  /\ pc[t] = "idle"
  /\ IF bRecursive /\ Contains(hashCurrentReaders, Self(t))
     THEN \* re-acquiring a read lock
          /\ hashCurrentReaders' = [hashCurrentReaders EXCEPT ![Self(t)] = @ + 1]
          /\ iActiveReaders' = iActiveReaders + 1
          /\ UNCHANGED <<iWaitingReaders, pc>>
     ELSE IF bRecursive /\ currentWriter = Self(t)
     THEN \* using a write lock for reading
          /\ hashCurrentReaders' = Insert(hashCurrentReaders, Self(t), 1)
          /\ iActiveReaders' = iActiveReaders + 1
          /\ UNCHANGED <<iWaitingReaders, pc>>
     ELSE ReadLoop(t, iWaitingReaders)
  /\ UNCHANGED <<bRecursive, bNoDebug, currentWriter, iActiveWriters,
                 iWaitingWriters, iRemainingReaders, aborted>>

\* readerWait.wait() has returned and the thread holds the mutex again:
\* --d->iWaitingReaders, then the loop condition is tested again.
ResumeRead_NoRetest(t) ==
  /\ ~aborted
  /\ pc[t] = "readerWoken"
  /\ iWaitingReaders' = iWaitingReaders - 1
  /\ hashCurrentReaders' = IF bRecursive
                           THEN Insert(hashCurrentReaders, Self(t), 1)
                           ELSE hashCurrentReaders
  /\ iActiveReaders' = iActiveReaders + 1
  /\ pc' = [pc EXCEPT ![t] = "idle"]
  /\ UNCHANGED <<bRecursive, bNoDebug, currentWriter, iActiveWriters,
                 iWaitingWriters, iRemainingReaders, aborted>>
ResumeRead(t) ==
  /\ ~aborted
  /\ pc[t] = "readerWoken"
  /\ ReadLoop(t, iWaitingReaders - 1)
  /\ UNCHANGED <<bRecursive, bNoDebug, currentWriter, iActiveWriters,
                 iWaitingWriters, iRemainingReaders, aborted>>


\* ------------------------------------------------------------ lockForWrite
\* while (d->iActiveWriters > 0 || d->iActiveReaders > iRemainingReaders)
WriterMustWait_CountOwnReaders(rem) == iActiveWriters > 0 \/ iActiveReaders > 0
WriterMustWait_IgnoreWriters(rem) == iActiveReaders > rem
WriterMustWait_IgnoreReaders(rem) == iActiveWriters > 0
WriterMustWait(rem) == iActiveWriters > 0 \/ iActiveReaders > rem

\* The loop of lines 666-671 and the grant of lines 673-674, entered with
\* iWaitingWriters at the value w the thread sees under the mutex and with
\* the local iRemainingReaders at rem.
WriteLoop_ClaimsEarly(t, w, rem) ==
  IF WriterMustWait(rem)
  THEN /\ iWaitingWriters' = w + 1
       /\ pc' = [pc EXCEPT ![t] = "writerWait"]
       /\ iRemainingReaders' = [iRemainingReaders EXCEPT ![t] = rem]
       /\ currentWriter' = Self(t)
       /\ UNCHANGED iActiveWriters
  ELSE /\ iWaitingWriters' = w
       /\ currentWriter' = Self(t)
       /\ iActiveWriters' = iActiveWriters + 1
       /\ pc' = [pc EXCEPT ![t] = "idle"]
       /\ iRemainingReaders' = [iRemainingReaders EXCEPT ![t] = 0]
WriteLoop(t, w, rem) ==
  IF WriterMustWait(rem)
  THEN /\ iWaitingWriters' = w + 1
       /\ pc' = [pc EXCEPT ![t] = "writerWait"]
       /\ iRemainingReaders' = [iRemainingReaders EXCEPT ![t] = rem]
       /\ UNCHANGED <<currentWriter, iActiveWriters>>
  ELSE /\ iWaitingWriters' = w
       /\ currentWriter' = Self(t)
       /\ iActiveWriters' = iActiveWriters + 1
       /\ pc' = [pc EXCEPT ![t] = "idle"]
       /\ iRemainingReaders' = [iRemainingReaders EXCEPT ![t] = 0]

LockForWrite(t) ==
  /\ ~aborted
  /\ pc[t] = "idle"
  /\ IF bRecursive /\ currentWriter = Self(t)
     THEN \* recursive lock can be locked for writing again
          /\ iActiveWriters' = iActiveWriters + 1
          /\ UNCHANGED <<currentWriter, iWaitingWriters, pc, iRemainingReaders>>
     ELSE WriteLoop(t, iWaitingWriters,
                    IF bRecursive /\ Contains(hashCurrentReaders, Self(t))
                    THEN hashCurrentReaders[Self(t)]
                    ELSE 0)
  /\ UNCHANGED <<bRecursive, bNoDebug, iActiveReaders, iWaitingReaders,
                 hashCurrentReaders, aborted>>

\* writerWait.wait() has returned and the thread holds the mutex again:
\* --d->iWaitingWriters, then the loop condition is tested again.
ResumeWrite(t) ==
  /\ ~aborted
  /\ pc[t] = "writerWoken"
  /\ WriteLoop(t, iWaitingWriters - 1, iRemainingReaders[t])
  /\ UNCHANGED <<bRecursive, bNoDebug, iActiveReaders, iWaitingReaders,
                 hashCurrentReaders, aborted>>

\* ------------------------------------------------------------------ wakeUp
\* QWaitCondition::wakeOne: one of the threads sleeping in wait() on the
\* condition is made runnable, which one is the scheduler's choice; no
\* thread sleeping there, no effect.  The result is the set of outcomes.
WakeOne_Nobody(p, asleep, awake) == {p}
WakeOne(p, asleep, awake) ==
  IF \E w \in Threads : p[w] = asleep
  THEN {[p EXCEPT ![w] = awake] : w \in {x \in Threads : p[x] = asleep}}
  ELSE {p}

\* QWaitCondition::wakeAll: every thread sleeping on the condition.
WakeAll_JustOne(p, asleep, awake) ==
  IF \E w \in Threads : p[w] = asleep
  THEN {[p EXCEPT ![w] = awake] : w \in {x \in Threads : p[x] = asleep}}
  ELSE {p}
WakeAll(p, asleep, awake) ==
  {[x \in Threads |-> IF p[x] = asleep THEN awake ELSE p[x]]}

WakeUp_ReadersFirst(p) ==
  IF iWaitingReaders # 0
  THEN WakeAll(p, "readerWait", "readerWoken")
  ELSE IF iWaitingWriters # 0
  THEN WakeOne(p, "writerWait", "writerWoken")
  ELSE {p}
WakeUp_Never(p) == {p}
WakeUp(p) ==
  IF iWaitingWriters # 0
  THEN WakeOne(p, "writerWait", "writerWoken")
  ELSE IF iWaitingReaders # 0
  THEN WakeAll(p, "readerWait", "readerWoken")
  ELSE {p}

\* -------------------------------------------------------------- unlockRead
\* Q_ASSERT(cond): with QT_NO_DEBUG the macro expands to nothing; otherwise
\* a false cond ends the process (qFatal) before anything is changed.
AssertFails(cond) == ~bNoDebug /\ ~cond

Abort ==
  /\ aborted' = TRUE
  /\ UNCHANGED <<lockVars, pc>>

UnlockRead(t) ==
  /\ ~aborted
  /\ pc[t] = "idle"
  /\ IF AssertFails(iActiveReaders > 0)
     THEN Abort
     ELSE /\ hashCurrentReaders' =
               IF bRecursive /\ Contains(hashCurrentReaders, Self(t))
               THEN IF hashCurrentReaders[Self(t)] - 1 <= 0
                    THEN Erase(hashCurrentReaders, Self(t))
                    ELSE [hashCurrentReaders EXCEPT ![Self(t)] = @ - 1]
               ELSE hashCurrentReaders
          /\ iActiveReaders' = iActiveReaders - 1
          /\ IF iActiveReaders - 1 = 0 /\ iActiveWriters = 0
             THEN pc' \in WakeUp(pc)
             ELSE pc' = pc
          /\ UNCHANGED <<currentWriter, iActiveWriters, iWaitingReaders,
                         iWaitingWriters, aborted>>
  /\ UNCHANGED <<bRecursive, bNoDebug, iRemainingReaders>>

\* ------------------------------------------------------------- unlockWrite
UnlockWrite_AlwaysWakes(t) ==
  /\ ~aborted
  /\ pc[t] = "idle"
  /\ IF AssertFails(iActiveWriters > 0)
     THEN Abort
     ELSE /\ iActiveWriters' = iActiveWriters - 1
          /\ IF iActiveWriters - 1 = 0
             THEN /\ currentWriter' = 0
                  /\ pc' \in WakeUp(pc)
             ELSE UNCHANGED <<currentWriter, pc>>
          /\ UNCHANGED <<iActiveReaders, iWaitingReaders, iWaitingWriters,
                         hashCurrentReaders, aborted>>
  /\ UNCHANGED <<bRecursive, bNoDebug, iRemainingReaders>>
UnlockWrite(t) ==
  /\ ~aborted
  /\ pc[t] = "idle"
  /\ IF AssertFails(iActiveWriters > 0)
     THEN Abort
     ELSE /\ iActiveWriters' = iActiveWriters - 1
          /\ IF iActiveWriters - 1 = 0
             THEN /\ currentWriter' = 0
                  /\ IF iActiveReaders = 0
                     THEN pc' \in WakeUp(pc)
                     ELSE pc' = pc
             ELSE UNCHANGED <<currentWriter, pc>>
          /\ UNCHANGED <<iActiveReaders, iWaitingReaders, iWaitingWriters,
                         hashCurrentReaders, aborted>>
  /\ UNCHANGED <<bRecursive, bNoDebug, iRemainingReaders>>

\* ------------------------------------------------- QWaitCondition::wait
\* wait() may return without wakeOne/wakeAll having chosen the thread; the
\* loops of lockForRead and lockForWrite test their condition again.
SpuriousWakeup(t) ==
  /\ ~aborted
  /\ pc[t] \in {"readerWait", "writerWait"}
  /\ pc' = [pc EXCEPT ![t] = IF pc[t] = "readerWait" THEN "readerWoken"
                                                     ELSE "writerWoken"]
  /\ lastOp' = <<"spuriousWakeup", t>>
  /\ UNCHANGED <<bRecursive, bNoDebug, lockVars, iRemainingReaders, aborted,
                 readHolds, writeHolds>>

\* ------------------------------------------------------------- the callers
\* A call is made by a thread that is not inside another call.  The caller's
\* count of holds goes up when the lockFor... call returns and down when
\* the matching unlock... call is made.
Granted(t) == pc'[t] = "idle"

AcquireRead(t) ==
  /\ readHolds[t] + writeHolds[t] < MaxHolds
  /\ LockForRead(t)
  /\ readHolds' = [readHolds EXCEPT ![t] = IF Granted(t) THEN @ + 1 ELSE @]
  /\ UNCHANGED writeHolds
  /\ lastOp' = <<"acquireRead", t>>

ReadWaitEnds(t) ==
  /\ ResumeRead(t)
  /\ readHolds' = [readHolds EXCEPT ![t] = IF Granted(t) THEN @ + 1 ELSE @]
  /\ UNCHANGED writeHolds
  /\ lastOp' = <<"readWaitEnds", t>>

AcquireWrite(t) ==
  /\ readHolds[t] + writeHolds[t] < MaxHolds
  /\ LockForWrite(t)
  /\ writeHolds' = [writeHolds EXCEPT ![t] = IF Granted(t) THEN @ + 1 ELSE @]
  /\ UNCHANGED readHolds
  /\ lastOp' = <<"acquireWrite", t>>

WriteWaitEnds(t) ==
  /\ ResumeWrite(t)
  /\ writeHolds' = [writeHolds EXCEPT ![t] = IF Granted(t) THEN @ + 1 ELSE @]
  /\ UNCHANGED readHolds
  /\ lastOp' = <<"writeWaitEnds", t>>

\* Paired use: a release matched to an earlier acquire of the same kind by
\* the same thread.
ReleaseRead(t) ==
  /\ readHolds[t] > 0
  /\ UnlockRead(t)
  /\ readHolds' = [readHolds EXCEPT ![t] = @ - 1]
  /\ UNCHANGED writeHolds
  /\ lastOp' = <<"releaseRead", t>>

ReleaseWrite(t) ==
  /\ writeHolds[t] > 0
  /\ UnlockWrite(t)
  /\ writeHolds' = [writeHolds EXCEPT ![t] = @ - 1]
  /\ UNCHANGED readHolds
  /\ lastOp' = <<"releaseWrite", t>>

\* Misuse: a release by a thread that holds no hold of that kind.
UnmatchedReleaseRead(t) ==
  /\ readHolds[t] = 0
  /\ iActiveReaders > -MaxUnmatched
  /\ UnlockRead(t)
  /\ UNCHANGED <<readHolds, writeHolds>>
  /\ lastOp' = <<"unmatchedReleaseRead", t>>

UnmatchedReleaseWrite(t) ==
  /\ writeHolds[t] = 0
  /\ iActiveWriters > -MaxUnmatched
  /\ UnlockWrite(t)
  /\ UNCHANGED <<readHolds, writeHolds>>
  /\ lastOp' = <<"unmatchedReleaseWrite", t>>

\* ---------------------------------------------------------- specifications
Next ==
  \E t \in Threads :
    \/ AcquireRead(t) /\ UNCHANGED <<calls, trip>>
    \/ AcquireWrite(t) /\ UNCHANGED <<calls, trip>>
    \/ ReadWaitEnds(t) /\ UNCHANGED <<calls, trip>>
    \/ WriteWaitEnds(t) /\ UNCHANGED <<calls, trip>>
    \/ ReleaseRead(t) /\ UNCHANGED <<calls, trip>>
    \/ ReleaseWrite(t) /\ UNCHANGED <<calls, trip>>
    \/ SpuriousWakeup(t) /\ UNCHANGED <<calls, trip>>

\* Paired use, any number of calls.
Spec == Init /\ [][Next]_vars

\* Paired use, at most MaxCalls lockFor... calls in all.
BoundedNext ==
  \E t \in Threads :
    \/ calls < MaxCalls /\ AcquireRead(t) /\ calls' = calls + 1 /\ UNCHANGED trip
    \/ calls < MaxCalls /\ AcquireWrite(t) /\ calls' = calls + 1 /\ UNCHANGED trip
    \/ ReadWaitEnds(t) /\ UNCHANGED <<calls, trip>>
    \/ WriteWaitEnds(t) /\ UNCHANGED <<calls, trip>>
    \/ ReleaseRead(t) /\ UNCHANGED <<calls, trip>>
    \/ ReleaseWrite(t) /\ UNCHANGED <<calls, trip>>
    \/ SpuriousWakeup(t) /\ UNCHANGED <<calls, trip>>

\* A thread whose wait has returned takes the mutex and goes on; a thread
\* that holds a hold and is not inside a call releases it.  Nothing obliges
\* a thread to make a new call, nor a wait to return unsignalled.
Fairness ==
  \A t \in Threads :
    /\ WF_vars(ReadWaitEnds(t) /\ UNCHANGED <<calls, trip>>)
    /\ WF_vars(WriteWaitEnds(t) /\ UNCHANGED <<calls, trip>>)
    /\ WF_vars(ReleaseRead(t) /\ UNCHANGED <<calls, trip>>)
    /\ WF_vars(ReleaseWrite(t) /\ UNCHANGED <<calls, trip>>)

FairSpec == Init /\ [][BoundedNext]_vars /\ Fairness

\* Any use: releases need not be matched.
MisuseNext ==
  \/ Next
  \/ \E t \in Threads :
       \/ UnmatchedReleaseRead(t) /\ UNCHANGED <<calls, trip>>
       \/ UnmatchedReleaseWrite(t) /\ UNCHANGED <<calls, trip>>

MisuseSpec == Init /\ [][MisuseNext]_vars

\* Paired use with any number of calls, in which a thread that can return
\* from wait() or that holds the lock and is free to release it does so in
\* the end.
LiveSpec == Init /\ [][Next]_vars /\ Fairness

\* Paired use in which wait() returns only after wakeOne or wakeAll has
\* chosen the thread.
StrictNext ==
  \E t \in Threads :
    \/ AcquireRead(t) /\ UNCHANGED <<calls, trip>>
    \/ AcquireWrite(t) /\ UNCHANGED <<calls, trip>>
    \/ ReadWaitEnds(t) /\ UNCHANGED <<calls, trip>>
    \/ WriteWaitEnds(t) /\ UNCHANGED <<calls, trip>>
    \/ ReleaseRead(t) /\ UNCHANGED <<calls, trip>>
    \/ ReleaseWrite(t) /\ UNCHANGED <<calls, trip>>

StrictSpec == Init /\ [][StrictNext]_vars

\* The same with the scheduling of LiveSpec.
StrictLiveSpec == Init /\ [][StrictNext]_vars /\ Fairness

\* A non-recursive lock used without nesting: a thread calls lockFor... only
\* while it has no hold, and wait() returns only after a signal.
FlatNext ==
  \E t \in Threads :
    \/ /\ readHolds[t] + writeHolds[t] = 0
       /\ AcquireRead(t) /\ UNCHANGED <<calls, trip>>
    \/ /\ readHolds[t] + writeHolds[t] = 0
       /\ AcquireWrite(t) /\ UNCHANGED <<calls, trip>>
    \/ ReadWaitEnds(t) /\ UNCHANGED <<calls, trip>>
    \/ WriteWaitEnds(t) /\ UNCHANGED <<calls, trip>>
    \/ ReleaseRead(t) /\ UNCHANGED <<calls, trip>>
    \/ ReleaseWrite(t) /\ UNCHANGED <<calls, trip>>

FlatInit == Init /\ ~bRecursive

FlatSpec == FlatInit /\ [][FlatNext]_vars

\* One thread's uninterrupted run on a recursive lock: lockForRead one or
\* more times, the first call from any state the lock can be in and returning
\* without a wait, then unlockRead as many times.  trip.snap keeps the lock's
\* data as they were before the first call.
TripAcquire(t) ==
  /\ bRecursive
  /\ trip.thread \in {0, t}
  /\ trip.rel = 0
  /\ AcquireRead(t)
  /\ Granted(t)
  /\ trip' = IF trip.thread = 0
             THEN [thread |-> t, acq |-> 1, rel |-> 0, snap |-> lockVars]
             ELSE [trip EXCEPT !.acq = @ + 1]
  /\ UNCHANGED calls

TripRelease(t) ==
  /\ trip.thread = t
  /\ trip.rel < trip.acq
  /\ ReleaseRead(t)
  /\ trip' = [trip EXCEPT !.rel = @ + 1]
  /\ UNCHANGED calls

\* Any interleaving of the threads leads to the state the run starts in; once
\* it has started, only the running thread acts.
TripNext ==
  \/ trip = NoTrip /\ Next
  \/ \E t \in Threads : TripAcquire(t)
  \/ \E t \in Threads : TripRelease(t)

TripSpec == Init /\ [][TripNext]_vars

\* ------------------------------------------------------------------ claims
WritersWaiting == {"writerWait", "writerWoken"}
ReadersWaiting == {"readerWait", "readerWoken"}

\* No thread other than t holds a hold or is inside a call.
Alone(t) ==
  \A u \in Threads \ {t} :
    readHolds[u] = 0 /\ writeHolds[u] = 0 /\ pc[u] = "idle"

\* No thread other than t holds a hold.
SoleHolder(t) ==
  \A u \in Threads \ {t} : readHolds[u] = 0 /\ writeHolds[u] = 0

\* C1: under paired use, in both modes, no two distinct threads have both
\* returned from lockForWrite without having released that write-hold.
C1_WriterWriterExclusion ==
  \A a, b \in Threads : writeHolds[a] > 0 /\ writeHolds[b] > 0 => a = b

\* One thread holds write access while another, woken in lockForWrite, is
\* about to test the loop condition.
C1_Witness ==
  \E a, b \in Threads :
    a # b /\ writeHolds[a] > 0 /\ pc[b] = "writerWoken"

\* C2: under paired use, in both modes, while a thread W holds a write-hold
\* every thread that holds a read-hold is W itself.
C2_WriterReaderExclusion ==
  \A w, r \in Threads : writeHolds[w] > 0 /\ readHolds[r] > 0 => r = w

\* The writer holds a read-hold of its own while another thread, woken in
\* lockForRead, is about to test the loop condition.
C2_Witness ==
  \E w, r \in Threads :
    /\ w # r
    /\ writeHolds[w] > 0
    /\ readHolds[w] > 0
    /\ pc[r] = "readerWoken"

\* C3: in recursive mode, a thread that holds read-holds and waits in
\* lockForWrite, while no other thread ever requests or holds write access,
\* is granted write access once (and whenever) no other thread holds a
\* read-hold.
PromotionWaits(t) ==
  /\ bRecursive
  /\ pc[t] \in WritersWaiting
  /\ readHolds[t] >= 1
  /\ \A u \in Threads \ {t} : readHolds[u] = 0

NoOtherWriter(t) ==
  \A u \in Threads \ {t} : writeHolds[u] = 0 /\ pc[u] \notin WritersWaiting

PromotionGranted(t) ==
  pc[t] = "idle" /\ writeHolds[t] >= 1 /\ currentWriter = t

C3_PromotionEventuallyGranted ==
  \A t \in Threads :
    [](NoOtherWriter(t)) => (PromotionWaits(t) ~> PromotionGranted(t))

\* C4: in recursive mode, a thread that holds k >= 1 read-holds and is the
\* only holder returns from lockForWrite in the step of the call, and
\* neither that call nor the unlockWrite that matches it changes the
\* thread's entry of hashCurrentReaders (it stays k) or iActiveReaders.
C4_PromotionKeepsReadHolds ==
  [][\A t \in Threads :
       (bRecursive /\ readHolds[t] >= 1) =>
         /\ (SoleHolder(t) /\ AcquireWrite(t)) =>
              /\ pc'[t] = "idle"
              /\ writeHolds'[t] = writeHolds[t] + 1
              /\ Contains(hashCurrentReaders', t)
              /\ hashCurrentReaders'[t] = readHolds[t]
              /\ readHolds'[t] = readHolds[t]
              /\ iActiveReaders' = iActiveReaders
         /\ ReleaseWrite(t) =>
              /\ Contains(hashCurrentReaders', t)
              /\ hashCurrentReaders'[t] = readHolds[t]
              /\ readHolds'[t] = readHolds[t]
              /\ iActiveReaders' = iActiveReaders]_vars

\* The thread has just released the write-hold and still holds its
\* read-holds, alone.
C4_Witness ==
  \E t \in Threads :
    /\ bRecursive
    /\ lastOp = <<"releaseWrite", t>>
    /\ writeHolds[t] = 0
    /\ readHolds[t] >= 1
    /\ Contains(hashCurrentReaders, t)
    /\ hashCurrentReaders[t] = readHolds[t]
    /\ iActiveReaders = readHolds[t]
    /\ Alone(t)

\* C5: a thread that holds nothing is not granted read access in a step
\* before which another thread is waiting in lockForWrite, whether that
\* writer still sleeps or has been woken and not yet taken the mutex.
C5_WriterPreference ==
  [][\A c \in Threads :
       (readHolds[c] = 0 /\ writeHolds[c] = 0 /\ readHolds'[c] = 1) =>
         \A b \in Threads \ {c} : pc[b] \notin WritersWaiting]_vars

\* The lock is free, the writer has been woken and has not yet taken the
\* mutex, and a reader that holds nothing is about to test its condition.
C5_Witness ==
  \E b, c \in Threads :
    /\ b # c
    /\ pc[b] = "writerWoken"
    /\ pc[c] = "readerWoken"
    /\ readHolds[c] = 0 /\ writeHolds[c] = 0
    /\ iActiveReaders = 0
    /\ iActiveWriters = 0

\* C6: in both modes, with finitely many calls, a thread inside a
\* lockForRead or lockForWrite call eventually returns from it, provided
\* the holds the call waits for do not stay for ever: again and again the
\* state of the lock is one in which the call's loop would let it through.
CouldProceed(t) ==
  \/ pc[t] = "idle"
  \/ pc[t] \in ReadersWaiting /\ ~ReaderMustWait
  \/ pc[t] \in WritersWaiting /\ ~WriterMustWait(iRemainingReaders[t])

C6_NoStarvation ==
  \A t \in Threads :
    []<>CouldProceed(t) => ((pc[t] # "idle") ~> (pc[t] = "idle"))

\* C7 as stated: in non-recursive mode a second lockForRead by a thread
\* that holds a read-hold, no other thread being involved, blocks.
C7_ReentryBlocks ==
  [][\A t \in Threads :
       (~bRecursive /\ readHolds[t] >= 1 /\ Alone(t) /\ AcquireRead(t)) =>
         pc'[t] = "readerWait"]_vars

\* C7 as amended: in non-recursive mode a second lockForRead by a thread
\* that holds a read-hold returns in the step of the call, with one more
\* read-hold, unless a writer is active or waiting; then it blocks.
C7_ReentryReturns ==
  [][\A t \in Threads :
       (~bRecursive /\ readHolds[t] >= 1 /\ AcquireRead(t)) =>
         IF iActiveWriters > 0 \/ iWaitingWriters > 0
         THEN /\ pc'[t] = "readerWait"
              /\ readHolds'[t] = readHolds[t]
              /\ iActiveReaders' = iActiveReaders
         ELSE /\ pc'[t] = "idle"
              /\ readHolds'[t] = readHolds[t] + 1
              /\ iActiveReaders' = iActiveReaders + 1]_vars

\* The second call has returned: the thread holds two read-holds and no
\* other thread is involved.
C7_Witness ==
  \E t \in Threads :
    /\ ~bRecursive
    /\ lastOp = <<"acquireRead", t>>
    /\ pc[t] = "idle"
    /\ readHolds[t] = 2
    /\ iActiveReaders = 2
    /\ Alone(t)

\* C8: unlockRead with iActiveReaders = 0, or unlockWrite with
\* iActiveWriters = 0, changes no field of the lock, and neither counter is
\* ever negative.
C8_UnheldReleaseChangesNothing ==
  [][/\ iActiveReaders' >= 0
     /\ iActiveWriters' >= 0
     /\ \A t \in Threads :
          \/ iActiveReaders = 0 /\ UnmatchedReleaseRead(t)
          \/ iActiveWriters = 0 /\ UnmatchedReleaseWrite(t)
          => UNCHANGED lockVars]_vars

\* C9: in recursive mode, unlockRead by a thread without an entry in
\* hashCurrentReaders while another thread has one, or unlockWrite by a
\* thread that is not currentWriter while another thread is, changes none
\* of iActiveReaders, iActiveWriters, currentWriter, hashCurrentReaders.
C9_NonHolderReleaseChangesNothing ==
  [][\A t \in Threads :
       /\ bRecursive
       /\ \/ /\ ~Contains(hashCurrentReaders, t)
             /\ \E u \in Threads \ {t} : Contains(hashCurrentReaders, u)
             /\ UnmatchedReleaseRead(t)
          \/ /\ currentWriter \in Threads \ {t}
             /\ UnmatchedReleaseWrite(t)
       => UNCHANGED <<iActiveReaders, iActiveWriters, currentWriter,
                      hashCurrentReaders>>]_vars

\* C10 as stated: in both modes, iActiveWriters > 0 exactly when
\* currentWriter is a thread.
C10_WriterIdentity ==
  /\ iActiveWriters > 0 => currentWriter # 0
  /\ iActiveWriters = 0 => currentWriter = 0

\* C10 as amended: in recursive mode, iActiveWriters > 0 exactly when
\* currentWriter is a thread; in non-recursive mode currentWriter is never
\* set, whatever iActiveWriters is.
C10_WriterIdentityRecursive ==
  /\ bRecursive => /\ iActiveWriters > 0 => currentWriter \in Threads
                   /\ iActiveWriters = 0 => currentWriter = 0
  /\ ~bRecursive => currentWriter = 0

\* A thread holds two nested write-holds in recursive mode.
C10_Witness ==
  \E t \in Threads :
    /\ bRecursive
    /\ writeHolds[t] = 2
    /\ iActiveWriters = 2
    /\ currentWriter = t

\* The sum of the values stored in a hash.
RECURSIVE SumOver(_, _)
SumOver(h, keys) ==
  IF keys = {}
  THEN 0
  ELSE LET k == CHOOSE x \in keys : TRUE
       IN  h[k] + SumOver(h, keys \ {k})

SumOfValues(h) == SumOver(h, DOMAIN h)

\* C11: in recursive mode, under paired use, iActiveReaders is the sum of
\* the values of hashCurrentReaders, a thread has an entry exactly when it
\* holds at least one read-hold, and the entry is its number of read-holds
\* (so every stored value is >= 1).
C11_ReadCountConsistency ==
  bRecursive =>
    /\ iActiveReaders = SumOfValues(hashCurrentReaders)
    /\ DOMAIN hashCurrentReaders = {t \in Threads : readHolds[t] >= 1}
    /\ \A t \in DOMAIN hashCurrentReaders :
         hashCurrentReaders[t] >= 1 /\ hashCurrentReaders[t] = readHolds[t]

\* A thread has just released its last read-hold (its entry is gone) while
\* another thread holds two.
C11_Witness ==
  \E t, u \in Threads :
    /\ bRecursive
    /\ t # u
    /\ lastOp = <<"releaseRead", t>>
    /\ ~Contains(hashCurrentReaders, t)
    /\ Contains(hashCurrentReaders, u)
    /\ hashCurrentReaders[u] = 2
    /\ iActiveReaders = 2

\* C12: under paired use iActiveReaders >= 0; in non-recursive mode
\* iActiveWriters is 0 or 1; in recursive mode iActiveWriters is the number
\* of unreleased write-holds of currentWriter, and no other thread has one.
C12_CounterBounds ==
  /\ iActiveReaders >= 0
  /\ ~bRecursive => iActiveWriters \in {0, 1}
  /\ bRecursive =>
       /\ \A t \in Threads : t # currentWriter => writeHolds[t] = 0
       /\ iActiveWriters =
            IF currentWriter = 0 THEN 0 ELSE writeHolds[currentWriter]

\* The writer has released the inner one of two nested write-holds.
C12_Witness ==
  \E t \in Threads :
    /\ bRecursive
    /\ lastOp = <<"releaseWrite", t>>
    /\ writeHolds[t] = 1
    /\ iActiveWriters = 1
    /\ currentWriter = t

\* C20: in recursive mode, acquireRead by a thread that already has an entry
\* in hashCurrentReaders returns without waiting in every state (waiting
\* writers included); it adds exactly 1 to the thread's entry and to
\* iActiveReaders and changes nothing else of the lock.
C20_ReadReentryNeverBlocks ==
  [][\A t \in Threads :
       (bRecursive /\ t \in DOMAIN hashCurrentReaders /\ AcquireRead(t)) =>
         /\ pc' = pc
         /\ hashCurrentReaders' =
              [hashCurrentReaders EXCEPT ![t] = hashCurrentReaders[t] + 1]
         /\ iActiveReaders' = iActiveReaders + 1
         /\ readHolds'[t] = readHolds[t] + 1
         /\ UNCHANGED <<currentWriter, iActiveWriters, iWaitingReaders,
                        iWaitingWriters>>]_vars

\* A thread has re-entered for reading while a writer was waiting.
C20_Witness ==
  \E t \in Threads :
    /\ bRecursive
    /\ lastOp = <<"acquireRead", t>>
    /\ pc[t] = "idle"
    /\ hashCurrentReaders[t] = 2
    /\ writeHolds[t] = 0
    /\ iWaitingWriters > 0

\* C14: in recursive mode, when a thread holding two read-holds (and nothing
\* else holds the lock) releases one, iActiveReaders is 1; and as long as a
\* thread has an unreleased read-hold, an acquireWrite by any other thread
\* blocks, and a blocked one whose wait returns blocks again.
C14_PartialReleaseKeepsWritersOut ==
  [][\A t \in Threads :
       /\ ( /\ bRecursive
            /\ readHolds[t] = 2
            /\ writeHolds[t] = 0
            /\ SoleHolder(t)
            /\ ReleaseRead(t) ) =>
              /\ iActiveReaders' = 1
              /\ hashCurrentReaders'[t] = 1
       /\ \A u \in Threads \ {t} :
            ( /\ bRecursive
              /\ readHolds[t] >= 1
              /\ AcquireWrite(u) \/ WriteWaitEnds(u) ) =>
                /\ pc'[u] = "writerWait"
                /\ writeHolds'[u] = 0
                /\ UNCHANGED <<iActiveWriters, currentWriter>>]_vars

\* The first thread has released one of its two read-holds while another
\* thread is blocked in acquireWrite.
C14_Witness ==
  \E t \in Threads : \E u \in Threads \ {t} :
    /\ bRecursive
    /\ lastOp = <<"releaseRead", t>>
    /\ readHolds[t] = 1
    /\ iActiveReaders = 1
    /\ pc[u] \in WritersWaiting
    /\ readHolds[u] = 0

\* C13: in recursive mode, from every state in which the thread is granted
\* read access at once, N lockForRead calls followed by N unlockRead calls by
\* that thread, no other thread acting, leave currentWriter, iActiveReaders,
\* iActiveWriters, iWaitingReaders, iWaitingWriters and hashCurrentReaders
\* as they were before the first call.
C13_ReadRoundTrip ==
  (trip.thread # 0 /\ trip.rel = trip.acq) => lockVars = trip.snap

\* A run of two calls and two releases has ended, started by a thread with
\* no entry in the hash while a reader of an earlier time was still waiting.
C13_Witness ==
  /\ trip.thread # 0
  /\ trip.acq = 2
  /\ trip.rel = 2
  /\ trip.thread \notin DOMAIN trip.snap[6]
  /\ iWaitingReaders > 0

\* The threads a step takes out of their sleep in wait().
WokenWriters == {w \in Threads : pc[w] = "writerWait" /\ pc'[w] = "writerWoken"}
WokenReaders == {r \in Threads : pc[r] = "readerWait" /\ pc'[r] = "readerWoken"}
SleepingWriters == {w \in Threads : pc[w] = "writerWait"}
SleepingReaders == {r \in Threads : pc[r] = "readerWait"}

\* A release that leaves iActiveReaders = 0 and iActiveWriters = 0.
FreeingRelease ==
  /\ \E t \in Threads : ReleaseRead(t) \/ ReleaseWrite(t)
  /\ iActiveReaders' = 0
  /\ iActiveWriters' = 0

\* C16 as stated: on every release that leaves iActiveReaders = 0 and
\* iActiveWriters = 0, if iWaitingWriters > 0 exactly one blocked writer is
\* woken and no blocked reader; otherwise, if iWaitingReaders > 0, every
\* blocked reader is woken; if both counts are 0 nothing is woken.
C16_WakePolicyChoice ==
  [][FreeingRelease =>
       IF iWaitingWriters > 0
       THEN Cardinality(WokenWriters) = 1 /\ WokenReaders = {}
       ELSE IF iWaitingReaders > 0
       THEN WokenReaders = SleepingReaders /\ WokenWriters = {}
       ELSE WokenReaders = {} /\ WokenWriters = {}]_vars

\* C16 amended: as above, but with iWaitingWriters > 0 one writer is woken
\* only if a counted writer is still asleep in wait(); when every counted
\* writer has been woken already and has not yet run, none is woken.
C16_WakePolicyOfSleepers ==
  [][FreeingRelease =>
       IF iWaitingWriters > 0
       THEN /\ Cardinality(WokenWriters) =
                 IF SleepingWriters = {} THEN 0 ELSE 1
            /\ WokenReaders = {}
       ELSE IF iWaitingReaders > 0
       THEN WokenReaders = SleepingReaders /\ WokenWriters = {}
       ELSE WokenReaders = {} /\ WokenWriters = {}]_vars

\* A release has freed the lock with a writer and a reader waiting: the
\* writer is awake and the reader still sleeps.
C16_Witness ==
  \E t, w, r \in Threads :
    /\ lastOp[1] \in {"releaseRead", "releaseWrite"}
    /\ lastOp[2] = t
    /\ iActiveReaders = 0
    /\ iActiveWriters = 0
    /\ iWaitingWriters = 1
    /\ iWaitingReaders = 1
    /\ pc[w] = "writerWoken"
    /\ pc[r] = "readerWait"

\* Two readers, one writer: r1 and r2 each hold one read-hold and nothing
\* else is held, w is inside lockForWrite holding nothing, and no further
\* lockFor... call will be made.
TwoReadersOneWriter(w) ==
  \E r1, r2 \in Threads \ {w} :
    /\ r1 # r2
    /\ readHolds[r1] = 1 /\ writeHolds[r1] = 0 /\ pc[r1] = "idle"
    /\ readHolds[r2] = 1 /\ writeHolds[r2] = 0 /\ pc[r2] = "idle"
    /\ iActiveReaders = 2
    /\ iActiveWriters = 0
    /\ pc[w] \in WritersWaiting
    /\ readHolds[w] = 0
    /\ calls = MaxCalls

WriterIn(w) ==
  /\ pc[w] = "idle"
  /\ writeHolds[w] = 1
  /\ iActiveWriters = 1
  /\ iActiveReaders = 0

\* C15: with no writer active or waiting every acquireRead returns at once
\* with iActiveReaders one higher (so two readers reach 2 in any order);
\* while another thread has a read-hold, a lockForWrite call blocks and a
\* return of its wait blocks again; and once the two readers are in and the
\* writer waits, the writer's call does return, with iActiveWriters = 1 and
\* iActiveReaders = 0.
C15_TwoReadersOneWriter ==
  /\ [][\A t \in Threads :
          /\ (iActiveWriters = 0 /\ iWaitingWriters = 0 /\ AcquireRead(t)) =>
                /\ pc'[t] = "idle"
                /\ readHolds'[t] = readHolds[t] + 1
                /\ iActiveReaders' = iActiveReaders + 1
          /\ ( /\ \E r \in Threads \ {t} : readHolds[r] >= 1
               /\ AcquireWrite(t) \/ WriteWaitEnds(t) ) =>
                /\ pc'[t] = "writerWait"
                /\ writeHolds'[t] = writeHolds[t]]_vars
  /\ \A w \in Threads : TwoReadersOneWriter(w) ~> WriterIn(w)

\* The writer has just called lockForWrite and sleeps; the two readers are in.
C15_Witness ==
  \E w \in Threads :
    /\ TwoReadersOneWriter(w)
    /\ lastOp = <<"acquireWrite", w>>
    /\ pc[w] = "writerWait"
    /\ iWaitingWriters = 1

\* Every thread is again and again without any hold: whoever holds the
\* lock releases it in the end.
HoldersRelease ==
  \A u \in Threads : []<>(readHolds[u] = 0 /\ writeHolds[u] = 0)

\* From some time on no thread other than w calls lockForWrite.
NoOtherWriterArrives(w) ==
  <>[](lastOp[1] = "acquireWrite" => lastOp[2] = w)

\* C17: while a thread is inside lockForWrite, no thread without a hold is
\* granted a read-hold, by a call or by a return of its wait; so if every
\* holder releases in the end and no other writer arrives, the waiting
\* writer acquires in the end, however many lockForRead calls keep arriving.
C17_ReadersCannotStarveWriter ==
  /\ [][\A c \in Threads :
          ( /\ readHolds[c] = 0
            /\ writeHolds[c] = 0
            /\ \E b \in Threads \ {c} : pc[b] \in WritersWaiting
            /\ AcquireRead(c) \/ ReadWaitEnds(c) ) =>
              /\ pc'[c] = "readerWait"
              /\ readHolds'[c] = 0
              /\ iActiveReaders' = iActiveReaders]_vars
  /\ \A w \in Threads :
       (HoldersRelease /\ NoOtherWriterArrives(w)) =>
         ((pc[w] \in WritersWaiting) ~> (pc[w] = "idle" /\ writeHolds[w] >= 1))

\* A writer that waited while a reader was turned away has acquired.
C17_Witness ==
  \E w, c \in Threads :
    /\ w # c
    /\ lastOp = <<"writeWaitEnds", w>>
    /\ pc[w] = "idle"
    /\ writeHolds[w] = 1
    /\ readHolds[w] = 0
    /\ pc[c] = "readerWait"
    /\ readHolds[c] = 0

WriterAcquired(w) == pc[w] = "idle" /\ writeHolds[w] >= 1

\* C18 as stated: if every holder releases in the end, a thread inside
\* lockForWrite acquires write access in the end, even when other threads
\* keep calling lockForWrite.
C18_NoWriterStarvation ==
  \A w \in Threads :
    HoldersRelease => ((pc[w] \in WritersWaiting) ~> WriterAcquired(w))

\* C18 amended: the same, provided the other threads stop calling
\* lockForWrite from some time on.
C18_NoWriterStarvationOnceWritersStop ==
  \A w \in Threads :
    (HoldersRelease /\ NoOtherWriterArrives(w)) =>
      ((pc[w] \in WritersWaiting) ~> WriterAcquired(w))

\* A writer has acquired on a return of its wait while another writer waits.
C18_Witness ==
  \E w, u \in Threads :
    /\ w # u
    /\ lastOp = <<"writeWaitEnds", w>>
    /\ WriterAcquired(w)
    /\ readHolds[w] = 0
    /\ pc[u] \in WritersWaiting

\* From some time on no thread calls lockForWrite.
WritersStop == <>[](lastOp[1] # "acquireWrite")

\* C19: if from some time on no thread calls lockForWrite and every holder
\* releases in the end, every thread inside lockForRead is granted read
\* access in the end.
C19_NoReaderStarvation ==
  \A r \in Threads :
    (WritersStop /\ HoldersRelease) =>
      ((pc[r] \in ReadersWaiting) ~> (pc[r] = "idle" /\ readHolds[r] >= 1))

\* C21: in recursive mode, lockForRead by the thread that is currentWriter
\* and has no entry in hashCurrentReaders returns without waiting (waiting
\* writers or not), creates its entry with count 1 and adds 1 to
\* iActiveReaders; and while a thread holds write access, lockForRead and
\* lockForWrite by every other thread, and every return of their waits,
\* end in a wait.
C21_WriteToReadPromotion ==
  [][\A t \in Threads :
       /\ ( /\ bRecursive
            /\ currentWriter = t
            /\ t \notin DOMAIN hashCurrentReaders
            /\ AcquireRead(t) ) =>
              /\ pc' = pc
              /\ DOMAIN hashCurrentReaders' = DOMAIN hashCurrentReaders \cup {t}
              /\ hashCurrentReaders'[t] = 1
              /\ \A u \in DOMAIN hashCurrentReaders :
                   hashCurrentReaders'[u] = hashCurrentReaders[u]
              /\ iActiveReaders' = iActiveReaders + 1
              /\ readHolds'[t] = readHolds[t] + 1
              /\ UNCHANGED <<currentWriter, iActiveWriters, iWaitingReaders,
                             iWaitingWriters>>
       /\ \A u \in Threads \ {t} :
            ( /\ bRecursive
              /\ writeHolds[t] >= 1
              /\ \/ AcquireRead(u) \/ ReadWaitEnds(u)
                 \/ AcquireWrite(u) \/ WriteWaitEnds(u) ) =>
                /\ pc'[u] \in {"readerWait", "writerWait"}
                /\ UNCHANGED <<readHolds, writeHolds, iActiveReaders,
                               iActiveWriters, currentWriter>>]_vars

\* The writer has taken a read-hold while another writer was waiting.
C21_Witness ==
  \E t \in Threads :
    /\ bRecursive
    /\ lastOp = <<"acquireRead", t>>
    /\ currentWriter = t
    /\ writeHolds[t] = 1
    /\ readHolds[t] = 1
    /\ hashCurrentReaders[t] = 1
    /\ iActiveReaders = 1
    /\ iWaitingWriters > 0

\* C22: in recursive mode, lockForWrite by the thread that is currentWriter
\* returns without waiting and adds 1 to iActiveWriters; while the thread
\* has a write-hold currentWriter is that thread and no other thread is
\* granted a hold; an unlockWrite that is not the last leaves currentWriter
\* alone, and the last one, and nothing else, sets it to 0.
C22_NestedWriteHolds ==
  [][\A t \in Threads :
       /\ (bRecursive /\ currentWriter = t /\ AcquireWrite(t)) =>
            /\ pc' = pc
            /\ iActiveWriters' = iActiveWriters + 1
            /\ writeHolds'[t] = writeHolds[t] + 1
            /\ UNCHANGED <<currentWriter, iActiveReaders, iWaitingReaders,
                           iWaitingWriters, hashCurrentReaders>>
       /\ (bRecursive /\ writeHolds[t] >= 1) =>
            /\ currentWriter = t
            /\ iActiveWriters = writeHolds[t]
            /\ \A u \in Threads \ {t} :
                 /\ readHolds'[u] = readHolds[u]
                 /\ writeHolds'[u] = 0
            /\ currentWriter' # t =>
                 /\ ReleaseWrite(t)
                 /\ writeHolds[t] = 1
                 /\ currentWriter' = 0
       /\ (bRecursive /\ ReleaseWrite(t)) =>
            /\ iActiveWriters' = iActiveWriters - 1
            /\ currentWriter' = IF writeHolds[t] = 1 THEN 0 ELSE t]_vars

\* The writer has taken a second, nested write-hold while another thread
\* was waiting.
C22_Witness ==
  \E t \in Threads : \E u \in Threads \ {t} :
    /\ bRecursive
    /\ lastOp = <<"acquireWrite", t>>
    /\ currentWriter = t
    /\ writeHolds[t] = 2
    /\ iActiveWriters = 2
    /\ pc[u] # "idle"

\* A release by any thread.
AnyRelease == \E t \in Threads : ReleaseRead(t) \/ ReleaseWrite(t)

\* C23: a release that leaves a read-hold or a write-hold in place
\* (iActiveReaders or iActiveWriters not 0 after its decrement) wakes no
\* thread; a release that leaves both at 0 applies the wake policy, so it
\* wakes a thread whenever a thread of the group the policy chooses is asleep.
C23_WakeOnlyWhenFree ==
  [][AnyRelease =>
       IF iActiveReaders' = 0 /\ iActiveWriters' = 0
       THEN ( \/ SleepingWriters # {}
              \/ iWaitingWriters = 0 /\ SleepingReaders # {} ) =>
                WokenWriters \cup WokenReaders # {}
       ELSE pc' = pc]_vars

\* The writer has released its write-hold and kept a read-hold: the reader
\* that blocked behind it still sleeps.
C23_Witness ==
  \E t \in Threads : \E u \in Threads \ {t} :
    /\ lastOp = <<"releaseWrite", t>>
    /\ iActiveWriters = 0
    /\ readHolds[t] >= 1
    /\ iActiveReaders >= 1
    /\ iWaitingWriters = 0
    /\ pc[u] = "readerWait"

\* C24: in every reachable state iWaitingReaders is the number of threads
\* that have entered readerWait.wait() in lockForRead and have not yet
\* resumed under the mutex, woken ones included; iWaitingWriters is the
\* same for lockForWrite; neither is negative.
C24_WaitingCountersExact ==
  /\ iWaitingReaders = Cardinality({t \in Threads : pc[t] \in ReadersWaiting})
  /\ iWaitingWriters = Cardinality({t \in Threads : pc[t] \in WritersWaiting})
  /\ iWaitingReaders >= 0
  /\ iWaitingWriters >= 0

\* A woken reader that has not resumed and a sleeping one are both counted,
\* next to a woken writer.
C24_Witness ==
  \E r1, r2, w \in Threads :
    /\ pc[r1] = "readerWoken"
    /\ pc[r2] = "readerWait"
    /\ pc[w] = "writerWoken"
    /\ iWaitingReaders = 2
    /\ iWaitingWriters = 1

\* C25: a thread whose wait() returns, for whatever reason, while its loop
\* condition is true (reader: iActiveWriters > 0 or iWaitingWriters > 0;
\* writer: iActiveWriters > 0 or iActiveReaders above its own read-holds)
\* is granted nothing and waits again; so with waits returning at any
\* time at most one thread has write-holds, and no thread has a read-hold
\* while another has a write-hold.
C25_WakeupsRevalidated ==
  /\ [][\A t \in Threads :
          /\ ( /\ iActiveWriters > 0 \/ iWaitingWriters > 0
               /\ ReadWaitEnds(t) ) =>
                 /\ pc'[t] = "readerWait"
                 /\ UNCHANGED <<readHolds, writeHolds, iActiveReaders,
                                iActiveWriters, iWaitingReaders,
                                hashCurrentReaders>>
          /\ ( /\ iActiveWriters > 0 \/ iActiveReaders > iRemainingReaders[t]
               /\ WriteWaitEnds(t) ) =>
                 /\ pc'[t] = "writerWait"
                 /\ UNCHANGED <<readHolds, writeHolds, iActiveReaders,
                                iActiveWriters, iWaitingWriters,
                                currentWriter>>]_vars
  /\ [](\A t \in Threads : \A u \in Threads \ {t} :
          writeHolds[t] >= 1 => (writeHolds[u] = 0 /\ readHolds[u] = 0))

\* A reader's wait has returned while a writer was active, and the reader
\* sleeps again.
C25_Witness ==
  \E t \in Threads : \E u \in Threads \ {t} :
    /\ lastOp = <<"readWaitEnds", t>>
    /\ pc[t] = "readerWait"
    /\ readHolds[t] = 0
    /\ writeHolds[u] = 1
    /\ iActiveWriters = 1
    /\ iWaitingWriters = 0

\* C26: in recursive mode the writer's last unlockWrite, made while the
\* thread still has read-holds, sets iActiveWriters and currentWriter to 0,
\* leaves iActiveReaders and the hash alone and wakes nobody; and as long as
\* the thread has a read-hold left, lockForWrite by every other thread, and
\* every return of its wait, ends in a wait.
C26_WriteReleasedReadsKept ==
  [][\A t \in Threads :
       /\ ( /\ bRecursive
            /\ writeHolds[t] = 1
            /\ readHolds[t] >= 1
            /\ ReleaseWrite(t) ) =>
              /\ iActiveWriters' = 0
              /\ currentWriter' = 0
              /\ iActiveReaders' = iActiveReaders
              /\ hashCurrentReaders' = hashCurrentReaders
              /\ pc' = pc
       /\ \A u \in Threads \ {t} :
            ( /\ bRecursive
              /\ writeHolds[t] = 0
              /\ readHolds[t] >= 1
              /\ AcquireWrite(u) \/ WriteWaitEnds(u) ) =>
                /\ pc'[u] = "writerWait"
                /\ writeHolds'[u] = 0
                /\ iActiveWriters' = iActiveWriters]_vars

\* The writer has released its write-hold and kept a read-hold while
\* another writer sleeps.
C26_Witness ==
  \E t \in Threads : \E u \in Threads \ {t} :
    /\ bRecursive
    /\ lastOp = <<"releaseWrite", t>>
    /\ currentWriter = 0
    /\ iActiveWriters = 0
    /\ readHolds[t] >= 1
    /\ hashCurrentReaders[t] = readHolds[t]
    /\ pc[u] = "writerWait"

\* Every hold that was granted has been released and no thread is inside a
\* lockFor... call.
AllQuiet ==
  \A t \in Threads :
    readHolds[t] = 0 /\ writeHolds[t] = 0 /\ pc[t] = "idle"

\* C27: in both modes, whenever every granted hold has been released by its
\* matching release and no thread is blocked, the lock's data are as right
\* after construction: the four counters 0, currentWriter 0, the hash empty.
C27_FreeAgain ==
  AllQuiet =>
    /\ iActiveReaders = 0
    /\ iActiveWriters = 0
    /\ iWaitingReaders = 0
    /\ iWaitingWriters = 0
    /\ currentWriter = 0
    /\ hashCurrentReaders = EmptyHash

\* The last hold, a read-hold of a recursive lock, has just been released.
C27_Witness ==
  \E t \in Threads :
    /\ bRecursive
    /\ lastOp = <<"releaseRead", t>>
    /\ AllQuiet
    /\ hashCurrentReaders = EmptyHash

\* C28: a non-recursive lock used without nesting never is completely free
\* with a thread asleep and no wake-up pending for the group the wake policy
\* chooses (with a writer counted, some writer has been woken; otherwise no
\* reader is still asleep), and never has all its threads asleep.
C28_NoLostWakeup ==
  /\ ( /\ iActiveReaders = 0
       /\ iActiveWriters = 0
       /\ SleepingWriters \cup SleepingReaders # {} ) =>
         IF iWaitingWriters > 0
         THEN \E w \in Threads : pc[w] = "writerWoken"
         ELSE SleepingReaders = {}
  /\ \E t \in Threads : pc[t] \notin {"readerWait", "writerWait"}

\* The lock is free, a writer has been woken and has not yet run, and the
\* other two threads sleep behind it.
C28_Witness ==
  \E w, x, r \in Threads :
    /\ iActiveReaders = 0
    /\ iActiveWriters = 0
    /\ pc[w] = "writerWoken"
    /\ pc[x] = "writerWait"
    /\ pc[r] = "readerWait"

\* Two distinct threads of a recursive lock each have a read-hold and are
\* both inside lockForWrite.
BothUpgrading(t1, t2) ==
  /\ bRecursive
  /\ t1 # t2
  /\ readHolds[t1] >= 1 /\ pc[t1] \in WritersWaiting
  /\ readHolds[t2] >= 1 /\ pc[t2] \in WritersWaiting

\* C29: in recursive mode, once two distinct threads that each have a
\* read-hold are both inside lockForWrite, they stay there whatever happens
\* (neither call returns, at any return of wait() the thread waits again),
\* and every lockForRead call or wait return of a thread without holds ends
\* in a wait.
C29_ConcurrentUpgradeDeadlock ==
  [][\A t1, t2 \in Threads :
       BothUpgrading(t1, t2) =>
         /\ pc'[t1] \in WritersWaiting
         /\ pc'[t2] \in WritersWaiting
         /\ readHolds'[t1] = readHolds[t1] /\ writeHolds'[t1] = 0
         /\ readHolds'[t2] = readHolds[t2] /\ writeHolds'[t2] = 0
         /\ WriteWaitEnds(t1) => pc'[t1] = "writerWait"
         /\ \A c \in Threads :
              ( /\ readHolds[c] = 0
                /\ writeHolds[c] = 0
                /\ AcquireRead(c) \/ ReadWaitEnds(c) ) =>
                  /\ pc'[c] = "readerWait"
                  /\ readHolds'[c] = 0]_vars

\* Both upgrading threads sleep, and a reader whose wait returned sleeps
\* again behind them.
C29_Witness ==
  \E t1, t2, c \in Threads :
    /\ BothUpgrading(t1, t2)
    /\ lastOp = <<"readWaitEnds", c>>
    /\ pc[c] = "readerWait"
    /\ readHolds[c] = 0
    /\ iWaitingWriters = 2

\* C30: under paired use, whenever a thread sleeps in lockForRead with no
\* wake-up pending for it, a writer is active or waiting.
C30_NoStrandedReaders ==
  \A r \in Threads :
    pc[r] = "readerWait" => (iActiveWriters > 0 \/ iWaitingWriters > 0)

\* What a step leaves alone when it grants nothing: the active counters,
\* currentWriter, the hash, every caller's holds and the other threads'
\* positions.
FrameOfWait(t) ==
  /\ UNCHANGED <<iActiveReaders, iActiveWriters, currentWriter,
                 hashCurrentReaders, readHolds, writeHolds>>
  /\ \A u \in Threads \ {t} : pc'[u] = pc[u]

\* C31: a lockForRead or lockForWrite call that has to wait adds 1 to its
\* own waiting counter and changes nothing else; a return of its wait that
\* does not grant access takes the 1 off and puts it back, changing nothing
\* else; the return that grants access takes the 1 off and leaves the other
\* waiting counter alone; and in non-recursive mode hashCurrentReaders is
\* empty in every state.
C31_FrameOfBlockedAcquire ==
  /\ [][\A t \in Threads :
          /\ (AcquireRead(t) /\ pc'[t] # "idle") =>
               /\ pc'[t] = "readerWait"
               /\ iWaitingReaders' = iWaitingReaders + 1
               /\ iWaitingWriters' = iWaitingWriters
               /\ FrameOfWait(t)
          /\ (AcquireWrite(t) /\ pc'[t] # "idle") =>
               /\ pc'[t] = "writerWait"
               /\ iWaitingWriters' = iWaitingWriters + 1
               /\ iWaitingReaders' = iWaitingReaders
               /\ FrameOfWait(t)
          /\ (ReadWaitEnds(t) /\ pc'[t] # "idle") =>
               /\ pc'[t] = "readerWait"
               /\ UNCHANGED <<iWaitingReaders, iWaitingWriters>>
               /\ FrameOfWait(t)
          /\ (WriteWaitEnds(t) /\ pc'[t] # "idle") =>
               /\ pc'[t] = "writerWait"
               /\ UNCHANGED <<iWaitingReaders, iWaitingWriters>>
               /\ FrameOfWait(t)
          /\ (ReadWaitEnds(t) /\ pc'[t] = "idle") =>
               /\ iWaitingReaders' = iWaitingReaders - 1
               /\ iWaitingWriters' = iWaitingWriters
          /\ (WriteWaitEnds(t) /\ pc'[t] = "idle") =>
               /\ iWaitingWriters' = iWaitingWriters - 1
               /\ iWaitingReaders' = iWaitingReaders]_vars
  /\ [](~bRecursive => hashCurrentReaders = EmptyHash)

\* A second writer has called lockForWrite on a recursive lock held by a
\* reader and sleeps; the reader's entry and the counters are as before.
C31_Witness ==
  \E t, r \in Threads :
    /\ bRecursive
    /\ lastOp = <<"acquireWrite", t>>
    /\ pc[t] = "writerWait"
    /\ iWaitingWriters = 2
    /\ currentWriter = 0
    /\ iActiveWriters = 0
    /\ iActiveReaders = 1
    /\ r \in DOMAIN hashCurrentReaders
    /\ hashCurrentReaders[r] = 1

=============================================================================
